---- MODULE Spec2Model ----
(***************************************************************************)
(* State-machine model of the AI Wargame engine (ai_wargame_skeleton.py):  *)
(* the unit tables, the board, move legality, the four actions, the turn   *)
(* and termination logic, and the live game loop that drives them.         *)
(*                                                                         *)
(* A Coord is a pair <<row, col>>, a CoordPair is a pair <<src, dst>>, a   *)
(* Unit is a record [player, type, health], an empty cell is None, and a   *)
(* Game is a record with the fields of the Game dataclass.                 *)
(***************************************************************************)
EXTENDS Integers, Sequences, FiniteSets, TLC

VARIABLES game, options, mv, res, prev, peer, broker

vars == <<game, options, mv, res, prev, peer, broker>>

(***************************************************************************)
(* Bounds of the model.                                                    *)
(***************************************************************************)
\* largest turn limit (and cap on turns_played) explored from the deployment
MaxTurns == 3

\* the round (two turns) of the game in which the mid-game positions are met
OpRound == 8

(***************************************************************************)
(* Enumerations and the Unit model.                                        *)
(***************************************************************************)
Attacker == "Attacker"
Defender == "Defender"
Player == {Attacker, Defender}

\* Player.next
next(p) == IF p = Attacker THEN Defender ELSE Attacker

UnitType == {"AI", "Tech", "Virus", "Program", "Firewall"}

\* UnitType.value
value(t) ==
    CASE t = "AI" -> 0
      [] t = "Tech" -> 1
      [] t = "Virus" -> 2
      [] t = "Program" -> 3
      [] t = "Firewall" -> 4

\* the absent unit (Python None) in a board cell
None == [player |-> "None", type |-> "None", health |-> 0]

\* Unit(player, type, health); health defaults to 9
Unit(p, t, h) == [player |-> p, type |-> t, health |-> h]

\* damage_table with a Tech that damages a Virus by 1 only
damage_table_weak_tech ==
    << <<3, 3, 3, 3, 1>>,
       <<1, 1, 1, 1, 1>>,
       <<9, 6, 1, 6, 1>>,
       <<3, 3, 3, 3, 1>>,
       <<1, 1, 1, 1, 1>> >>

\* Unit.damage_table, rows = acting type, columns = target type
damage_table ==
    << <<3, 3, 3, 3, 1>>,
       <<1, 1, 6, 1, 1>>,
       <<9, 6, 1, 6, 1>>,
       <<3, 3, 3, 3, 1>>,
       <<1, 1, 1, 1, 1>> >>

\* Unit.repair_table, rows = acting type, columns = target type
repair_table ==
    << <<0, 1, 1, 0, 0>>,
       <<3, 0, 0, 3, 3>>,
       <<0, 0, 0, 0, 0>>,
       <<0, 0, 0, 0, 0>>,
       <<0, 0, 0, 0, 0>> >>

\* table[a.value][b.value] with Python's 0-based indices
lookup(table, a, b) == table[value(a) + 1][value(b) + 1]

\* Unit.is_alive
is_alive(unit) == unit.health > 0

\* Unit.mod_health without the upper clamp
Unit_mod_health_no_cap(unit, health_delta) ==
    LET h == unit.health + health_delta
    IN  [unit EXCEPT !.health = IF h < 0 THEN 0 ELSE h]

\* Unit.mod_health: add the delta, then clamp to [0, 9]
Unit_mod_health(unit, health_delta) ==
    LET h == unit.health + health_delta
    IN  [unit EXCEPT !.health = IF h < 0 THEN 0 ELSE IF h > 9 THEN 9 ELSE h]

(***************************************************************************)
(* Coordinates.                                                            *)
(***************************************************************************)
\* Options.dim as set by main
dim == 5

\* the cells of the board
Coords == (0 .. dim - 1) \X (0 .. dim - 1)

\* Game.is_valid_coord
is_valid_coord(coord) ==
    ~(coord[1] < 0 \/ coord[1] >= dim \/ coord[2] < 0 \/ coord[2] >= dim)

\* Coord.iter_adjacent: up, left, down, right, in the order yielded
iter_adjacent(coord) ==
    << <<coord[1] - 1, coord[2]>>,
       <<coord[1], coord[2] - 1>>,
       <<coord[1] + 1, coord[2]>>,
       <<coord[1], coord[2] + 1>> >>

\* iter_range with the column range ending one short: range(col-dist, col+dist)
iter_range_short(coord, dist) ==
    LET w == 2 * dist
    IN  [i \in 1 .. (w + 1) * w |->
            <<coord[1] - dist + ((i - 1) \div w),
              coord[2] - dist + ((i - 1) % w)>>]

\* Coord.iter_range: the (2*dist+1)^2 box around coord, row by row
iter_range(coord, dist) ==
    LET w == 2 * dist + 1
    IN  [i \in 1 .. w * w |->
            <<coord[1] - dist + ((i - 1) \div w),
              coord[2] - dist + ((i - 1) % w)>>]

(***************************************************************************)
(* Board access.                                                           *)
(***************************************************************************)
\* Game.get
get(g, coord) == IF is_valid_coord(coord) THEN g.board[coord] ELSE None

\* Game.set
set(g, coord, unit) ==
    IF is_valid_coord(coord) THEN [g EXCEPT !.board[coord] = unit] ELSE g

\* remove_dead that drops the dead unit and leaves the flags alone
remove_dead_keeps_flag(g, coord) ==
    LET unit == IF is_valid_coord(coord) THEN g.board[coord] ELSE None
    IN  IF unit # None /\ ~is_alive(unit)
        THEN [g EXCEPT !.board[coord] = None]
        ELSE g

\* Game.remove_dead: drop a dead unit and clear its side's flag if it is an AI
remove_dead(g, coord) ==
    LET unit == get(g, coord)
    IN  IF unit # None /\ ~is_alive(unit)
        THEN LET g1 == set(g, coord, None)
             IN  IF unit.type = "AI"
                 THEN IF unit.player = Attacker
                      THEN [g1 EXCEPT !.attacker_has_ai = FALSE]
                      ELSE [g1 EXCEPT !.defender_has_ai = FALSE]
                 ELSE g1
        ELSE g

\* Game.mod_health
mod_health(g, coord, health_delta) ==
    LET target == get(g, coord)
    IN  IF target # None
        THEN remove_dead(set(g, coord, Unit_mod_health(target, health_delta)), coord)
        ELSE g

(***************************************************************************)
(* Move classification and legality.                                       *)
(***************************************************************************)
\* Game.determine_action; reading .player of an absent src unit raises
determine_action(g, coords) ==
    LET src_unit == get(g, coords[1])
        dst_unit == get(g, coords[2])
    IN  IF coords[1] = coords[2] THEN "SUICIDE"
        ELSE IF dst_unit = None THEN "MOVE"
        ELSE IF src_unit = None THEN "AttributeError"
        ELSE IF src_unit.player = dst_unit.player THEN "REPAIR"
        ELSE "ATTACK"

\* unit_movement_restriction without the check of the adjacent enemies
unit_movement_restriction_no_lock(g, coords) ==
    LET src_unit == get(g, coords[1])
        row_dst == coords[2][1] - coords[1][1]
        col_dst == coords[2][2] - coords[1][2]
    IN  IF src_unit.type \in {"AI", "Firewall", "Program"}
        THEN IF src_unit.player = Attacker /\ (row_dst > 0 \/ col_dst > 0)
             THEN FALSE
             ELSE ~(src_unit.player # Attacker /\ (row_dst < 0 \/ col_dst < 0))
        ELSE TRUE

\* unit_movement_restriction that holds the Defender to the Attacker's
\* directions
unit_movement_restriction_one_way(g, coords) ==
    LET src_unit == get(g, coords[1])
        row_dst == coords[2][1] - coords[1][1]
        col_dst == coords[2][2] - coords[1][2]
        adj == iter_adjacent(coords[1])
    IN  IF src_unit.type \in {"AI", "Firewall", "Program"}
        THEN IF row_dst > 0 \/ col_dst > 0
             THEN FALSE
             ELSE ~\E i \in 1 .. 4 :
                     /\ get(g, adj[i]) # None
                     /\ src_unit.player # get(g, adj[i]).player
        ELSE TRUE

\* unit_movement_restriction that locks every type next to an enemy
unit_movement_restriction_locks_all(g, coords) ==
    LET src_unit == get(g, coords[1])
        row_dst == coords[2][1] - coords[1][1]
        col_dst == coords[2][2] - coords[1][2]
        adj == iter_adjacent(coords[1])
    IN  IF /\ src_unit.type \in {"AI", "Firewall", "Program"}
           /\ \/ src_unit.player = Attacker /\ (row_dst > 0 \/ col_dst > 0)
              \/ src_unit.player # Attacker /\ (row_dst < 0 \/ col_dst < 0)
        THEN FALSE
        ELSE ~\E i \in 1 .. 4 :
                /\ get(g, adj[i]) # None
                /\ src_unit.player # get(g, adj[i]).player

\* Game.unit_movement_restriction
unit_movement_restriction(g, coords) ==
    LET src_unit == get(g, coords[1])
        row_dst == coords[2][1] - coords[1][1]
        col_dst == coords[2][2] - coords[1][2]
        adj == iter_adjacent(coords[1])
    IN  IF src_unit.type \in {"AI", "Firewall", "Program"}
        THEN IF src_unit.player = Attacker /\ (row_dst > 0 \/ col_dst > 0)
             THEN FALSE
             ELSE IF src_unit.player # Attacker /\ (row_dst < 0 \/ col_dst < 0)
             THEN FALSE
             ELSE ~\E i \in 1 .. 4 :
                     /\ get(g, adj[i]) # None
                     /\ src_unit.player # get(g, adj[i]).player
        ELSE TRUE

\* is_valid_move without the check that the repaired unit is below 9
is_valid_move_repairs_full(g, coords) ==
    LET src_unit == get(g, coords[1])
        dst_unit == get(g, coords[2])
        adj == iter_adjacent(coords[1])
    IN  IF ~is_valid_coord(coords[1]) \/ ~is_valid_coord(coords[2]) THEN FALSE
        ELSE IF src_unit = None \/ src_unit.player # g.next_player THEN FALSE
        ELSE IF coords[1] # coords[2]
        THEN IF \E i \in 1 .. 4 : adj[i] = coords[2]
             THEN IF dst_unit # None
                  THEN IF determine_action(g, coords) = "REPAIR"
                       THEN lookup(repair_table, src_unit.type, dst_unit.type) # 0
                       ELSE TRUE
                  ELSE unit_movement_restriction(g, coords)
             ELSE FALSE
        ELSE TRUE

\* is_valid_move without the check that dst is next to src
is_valid_move_any_distance(g, coords) ==
    LET src_unit == get(g, coords[1])
        dst_unit == get(g, coords[2])
    IN  IF ~is_valid_coord(coords[1]) \/ ~is_valid_coord(coords[2]) THEN FALSE
        ELSE IF src_unit = None \/ src_unit.player # g.next_player THEN FALSE
        ELSE IF coords[1] # coords[2]
        THEN IF dst_unit # None
             THEN IF determine_action(g, coords) = "REPAIR"
                  THEN ~(lookup(repair_table, src_unit.type, dst_unit.type) = 0
                         \/ dst_unit.health = 9)
                  ELSE TRUE
             ELSE unit_movement_restriction(g, coords)
        ELSE TRUE

\* Game.is_valid_move
is_valid_move(g, coords) ==
    LET src_unit == get(g, coords[1])
        dst_unit == get(g, coords[2])
        adj == iter_adjacent(coords[1])
    IN  IF ~is_valid_coord(coords[1]) \/ ~is_valid_coord(coords[2]) THEN FALSE
        ELSE IF src_unit = None \/ src_unit.player # g.next_player THEN FALSE
        ELSE IF coords[1] # coords[2]
        THEN IF \E i \in 1 .. 4 : adj[i] = coords[2]
             THEN IF dst_unit # None
                  THEN IF determine_action(g, coords) = "REPAIR"
                       THEN ~(lookup(repair_table, src_unit.type, dst_unit.type) = 0
                              \/ dst_unit.health = 9)
                       ELSE TRUE
                  ELSE unit_movement_restriction(g, coords)
             ELSE FALSE
        ELSE TRUE

(***************************************************************************)
(* Action execution.  Each returns [game, success, kind, n1, n2]: the new  *)
(* state, the success flag and the numbers printed in the result string.   *)
(***************************************************************************)
Result(g, ok, kind, n1, n2) ==
    [game |-> g, success |-> ok, kind |-> kind, n1 |-> n1, n2 |-> n2]

\* Game.perform_attack: n1 = "combat damage to source", n2 = "to target"
perform_attack(g, coords, src_unit, dst_unit) ==
    LET src_damage == lookup(damage_table, src_unit.type, dst_unit.type) * (-1)
        dst_damage == lookup(damage_table, dst_unit.type, src_unit.type) * (-1)
        g1 == mod_health(g, coords[1], src_damage)
        g2 == mod_health(g1, coords[2], dst_damage)
    IN  Result(g2, TRUE, "attack", src_damage * (-1), dst_damage * (-1))

\* perform_repair that heals the repairing unit instead of the target
perform_repair_source(g, coords, src_unit, dst_unit) ==
    LET repair == lookup(repair_table, src_unit.type, dst_unit.type)
    IN  Result(mod_health(g, coords[1], repair), TRUE, "repair", repair, 0)

\* Game.perform_repair: n1 = "repaired <n> health point"
perform_repair(g, coords, src_unit, dst_unit) ==
    LET repair == lookup(repair_table, src_unit.type, dst_unit.type)
    IN  Result(mod_health(g, coords[2], repair), TRUE, "repair", repair, 0)

\* perform_movement that leaves the unit at src as well
perform_movement_copies(g, coords) ==
    Result(set(g, coords[2], get(g, coords[1])), TRUE, "move", 0, 0)

\* Game.perform_movement
perform_movement(g, coords) ==
    Result(set(set(g, coords[2], get(g, coords[1])), coords[1], None),
           TRUE, "move", 0, 0)

\* the element of a one-element set: { e(x) : x \in {v} } computes v once
\* and names it x, as an assignment to a local variable does
Only(S) == CHOOSE x \in S : TRUE

\* the loop of perform_suicide over the first k cells of the box:
\* <<game, total_damage>> after them
RECURSIVE suicide_loop(_, _, _)
suicide_loop(g, box, k) ==
    IF k = 0 THEN <<g, 0>>
    ELSE Only({ IF get(before[1], box[k]) # None
                THEN <<mod_health(before[1], box[k], -2), before[2] + 2>>
                ELSE before
                : before \in {suicide_loop(g, box, k - 1)} })

\* Game.perform_suicide: n1 = "deals <n> total damage"
perform_suicide(g, coords) ==
    LET g1 == mod_health(g, coords[1], -9)
        box == iter_range(coords[1], 1)
        after == suicide_loop(g1, box, Len(box))
    IN  Result(after[1], TRUE, "self-destruct", after[2], 0)

\* perform_move that validates only after a MOVE was carried out
perform_move_moves_first(g, coords) ==
    LET src_unit == get(g, coords[1])
        dst_unit == get(g, coords[2])
        action == determine_action(g, coords)
    IN  IF is_valid_move(g, coords)
        THEN IF action = "MOVE" THEN perform_movement(g, coords)
             ELSE IF action = "ATTACK" THEN perform_attack(g, coords, src_unit, dst_unit)
             ELSE IF action = "REPAIR" THEN perform_repair(g, coords, src_unit, dst_unit)
             ELSE perform_suicide(g, coords)
        ELSE IF action = "MOVE" /\ src_unit # None
             THEN Result(perform_movement(g, coords).game, FALSE, "invalid move", 0, 0)
             ELSE Result(g, FALSE, "invalid move", 0, 0)

\* Game.perform_move
perform_move(g, coords) ==
    IF is_valid_move(g, coords)
    THEN LET src_unit == get(g, coords[1])
             dst_unit == get(g, coords[2])
             action == determine_action(g, coords)
         IN  IF action = "MOVE" THEN perform_movement(g, coords)
             ELSE IF action = "ATTACK" THEN perform_attack(g, coords, src_unit, dst_unit)
             ELSE IF action = "REPAIR" THEN perform_repair(g, coords, src_unit, dst_unit)
             ELSE perform_suicide(g, coords)
    ELSE Result(g, FALSE, "invalid move", 0, 0)

(***************************************************************************)
(* Turns and termination.                                                  *)
(***************************************************************************)
\* next_turn that counts the turn and leaves the player to move
next_turn_same_player(g) ==
    [g EXCEPT !.turns_played = g.turns_played + 1]

\* Game.next_turn
next_turn(g) ==
    [g EXCEPT !.next_player = next(g.next_player),
              !.turns_played = g.turns_played + 1]

\* Options.max_turns is <<>> for None and <<n>> for the limit n
NoLimit == <<>>

\* has_winner that looks at the AIs before the turn limit
has_winner_ai_first(g, opts) ==
    IF ~g.attacker_has_ai THEN Defender
    ELSE IF ~g.defender_has_ai THEN Attacker
    ELSE IF opts.max_turns # <<>> /\ g.turns_played >= opts.max_turns[1] THEN Defender
    ELSE "None"

\* has_winner that names the side that lost its AI
has_winner_loser(g, opts) ==
    IF opts.max_turns # <<>> /\ g.turns_played >= opts.max_turns[1]
    THEN Defender
    ELSE IF g.attacker_has_ai
         THEN IF g.defender_has_ai THEN "None" ELSE Defender
         ELSE Attacker

\* Game.has_winner; "None" when the game continues
has_winner(g, opts) ==
    IF opts.max_turns # NoLimit /\ g.turns_played >= opts.max_turns[1]
    THEN Defender
    ELSE IF g.attacker_has_ai
         THEN IF g.defender_has_ai THEN "None" ELSE Attacker
         ELSE Defender

\* Game.is_finished
is_finished(g, opts) == has_winner(g, opts) # "None"

(***************************************************************************)
(* Construction.                                                           *)
(***************************************************************************)
\* the assignments of Game.__post_init__, in order
Deployment ==
    LET md == dim - 1
    IN  << << <<0, 0>>, Unit(Defender, "AI", 9) >>,
           << <<1, 0>>, Unit(Defender, "Tech", 9) >>,
           << <<0, 1>>, Unit(Defender, "Tech", 9) >>,
           << <<2, 0>>, Unit(Defender, "Firewall", 9) >>,
           << <<0, 2>>, Unit(Defender, "Firewall", 9) >>,
           << <<1, 1>>, Unit(Defender, "Program", 9) >>,
           << <<md, md>>, Unit(Attacker, "AI", 9) >>,
           << <<md - 1, md>>, Unit(Attacker, "Virus", 9) >>,
           << <<md, md - 1>>, Unit(Attacker, "Virus", 9) >>,
           << <<md - 2, md>>, Unit(Attacker, "Program", 9) >>,
           << <<md, md - 2>>, Unit(Attacker, "Program", 9) >>,
           << <<md - 1, md - 1>>, Unit(Attacker, "Firewall", 9) >> >>

RECURSIVE deploy(_, _)
deploy(g, k) ==
    IF k = 0 THEN g
    ELSE set(deploy(g, k - 1), Deployment[k][1], Deployment[k][2])

\* Game(options): the dataclass defaults followed by __post_init__
NewGame ==
    deploy([board |-> [c \in Coords |-> None],
            next_player |-> Attacker,
            turns_played |-> 0,
            attacker_has_ai |-> TRUE,
            defender_has_ai |-> TRUE], Len(Deployment))

\* the value of res before any move was submitted
NoResult == [success |-> FALSE, kind |-> "none", n1 |-> 0, n2 |-> 0]

\* a game run on its own: no second instance of the program
NoPeer == <<>>

\* what the broker holds before any move is posted: null data.  Posted data
\* is the move and the turn of the body of the POST; by is the instance
\* that posted it, kept for the properties only
NoData == [null |-> TRUE, turn |-> 0, move |-> << <<0, 0>>, <<0, 0>> >>, by |-> 0]

\* the live game as main creates it, without a turn limit or with one
Init ==
    /\ game = NewGame
    /\ options \in {[max_turns |-> NoLimit], [max_turns |-> <<MaxTurns - 1>>],
                     [max_turns |-> <<MaxTurns>>]}
    /\ mv = << <<0, 0>>, <<0, 0>> >>
    /\ res = NoResult
    /\ prev = NewGame
    /\ peer = NoPeer
    /\ broker = NoData

(***************************************************************************)
(* The live game loop.                                                     *)
(***************************************************************************)
\* human_turn in a loop of main that does not stop at a winner
human_turn_unchecked(coords) ==
    /\ \E r \in {perform_move(game, coords)} :
           /\ game' = IF r.success THEN next_turn(r.game) ELSE r.game
           /\ res' = [success |-> r.success, kind |-> r.kind, n1 |-> r.n1, n2 |-> r.n2]
           /\ mv' = IF r.success THEN coords ELSE mv
           /\ prev' = IF r.success THEN game ELSE prev
    /\ UNCHANGED <<options, peer, broker>>

\* one pass of the loop of Game.human_turn (keyboard path) inside the loop
\* of main: main stops when has_winner is not None; the move is performed
\* and, on success only, the turn advances.  res is what perform_move
\* returned; mv and prev keep the last move performed and the state it was
\* performed on
human_turn(coords) ==
    /\ has_winner(game, options) = "None"
    /\ \E r \in {perform_move(game, coords)} :
           /\ game' = IF r.success THEN next_turn(r.game) ELSE r.game
           /\ res' = [success |-> r.success, kind |-> r.kind, n1 |-> r.n1, n2 |-> r.n2]
           /\ mv' = IF r.success THEN coords ELSE mv
           /\ prev' = IF r.success THEN game ELSE prev
    /\ UNCHANGED <<options, peer, broker>>

\* Game.read_move only returns pairs of valid coordinates; the moves typed
\* in the live game: any cell to itself or to one of its neighbours
LiveInputs ==
    {c \in Coords \X Coords :
        \/ c[1] = c[2]
        \/ \E i \in 1 .. 4 : iter_adjacent(c[1])[i] = c[2]}

\* the live game, followed for MaxTurns turns
Next ==
    /\ game.turns_played < MaxTurns
    /\ \E coords \in LiveInputs : human_turn(coords)

Spec == Init /\ [][Next]_vars

(***************************************************************************)
(* Single operations on mid-game positions.  A position holds both AIs     *)
(* (the loop of main only asks for a move while both are alive), an acting *)
(* unit of the player to move on a centre cell and other units on cells    *)
(* around it; every side has at most the units it was deployed with, on    *)
(* cells they can have reached, with any health a living unit can have.    *)
(***************************************************************************)
\* the cells of the acting unit: one inside the board, one in a corner
centre == <<2, 2>>
corner == <<4, 0>>

\* cells around a centre: its four neighbours in the order of iter_adjacent,
\* a diagonal neighbour, and a cell outside the 3x3 box
orth(ctr, i) == iter_adjacent(ctr)[i]
diag(ctr) == <<ctr[1] - 1, ctr[2] + 1>>
far(ctr) == <<ctr[1], ctr[2] + 2>>

\* the healths of a unit on the board
Healths == 1 .. 9

\* healths around the splash damage of 2
SplashHealths == {1, 2, 3}

\* number of units of a player and type that __post_init__ deploys
deployed(p, t) ==
    Cardinality({k \in 1 .. Len(Deployment) :
                    Deployment[k][2].player = p /\ Deployment[k][2].type = t})

\* the units a side can have on the board, as <<player, type>>
Kinds == {k \in Player \X UnitType : deployed(k[1], k[2]) > 0}

\* a cell a unit can stand on: Tech and Virus move freely, the other types
\* only advance from a cell they were deployed on (unit_movement_restriction)
placeable(unit, coord) ==
    \/ unit.type \in {"Tech", "Virus"}
    \/ \E k \in 1 .. Len(Deployment) :
          /\ Deployment[k][2].player = unit.player
          /\ Deployment[k][2].type = unit.type
          /\ IF unit.player = Attacker
             THEN coord[1] <= Deployment[k][1][1] /\ coord[2] <= Deployment[k][1][2]
             ELSE coord[1] >= Deployment[k][1][1] /\ coord[2] >= Deployment[k][1][2]

\* every side has at most its deployed units, each on a cell it can reach
plausible(placed) ==
    /\ \A e \in placed : is_valid_coord(e[1]) /\ placeable(e[2], e[1])
    /\ \A k \in Kinds :
          Cardinality({e \in placed : e[2].player = k[1] /\ e[2].type = k[2]})
              <= deployed(k[1], k[2])

\* the placed units, and each AI that is not among them on its deployment cell
with_ais(placed) ==
    placed \cup
    {e \in {<<Deployment[k][1], Deployment[k][2]>> : k \in 1 .. Len(Deployment)} :
        /\ e[2].type = "AI"
        /\ ~\E f \in placed : f[2].player = e[2].player /\ f[2].type = "AI"}

\* the game in the position of the placed units <<coord, unit>>, with the
\* owner of the acting unit to move
position(placed, actor) ==
    [board |-> [c \in Coords |->
                   IF \E e \in with_ais(placed) : e[1] = c
                   THEN (CHOOSE e \in with_ais(placed) : e[1] = c)[2]
                   ELSE None],
     next_player |-> actor.player,
     turns_played |-> 2 * OpRound + (IF actor.player = Attacker THEN 0 ELSE 1),
     attacker_has_ai |-> TRUE,
     defender_has_ai |-> TRUE]

\* an acting unit of any kind and health, or nothing, on a cell
anyone == {Unit(k[1], k[2], h) : k \in Kinds, h \in Healths}

\* a bystander of a suicide, or nothing: an AI or a Tech/Virus of either side
bystander ==
    {None} \cup {Unit(k[1], k[2], h) :
                    k \in {k \in Kinds : k[2] \in {"AI", "Tech", "Virus"}},
                    h \in SplashHealths}

\* positions of an acting unit with one unit on an orthogonal neighbour
Pairs ==
    {<<{<<centre, a>>, <<orth(centre, 1), b>>}, a>> : a \in anyone, b \in anyone}

\* positions of an acting unit in the corner with up to three units around it
Blasts ==
    {<<{e \in {<<corner, a>>, <<orth(corner, 1), b1>>, <<orth(corner, 4), b2>>,
               <<diag(corner), b3>>} : e[2] # None}, a>> :
        a \in {Unit(k[1], k[2], 9) : k \in {k \in Kinds : k[2] \in {"AI", "Tech", "Virus"}}},
        b1 \in bystander, b2 \in bystander, b3 \in bystander}

InitOp ==
    /\ \E s \in Pairs \cup Blasts :
          /\ plausible(s[1])
          /\ game = position(s[1], s[2])
    /\ options \in {[max_turns |-> NoLimit],
                     [max_turns |-> <<game.turns_played + 1>>]}
    /\ mv = << <<0, 0>>, <<0, 0>> >>
    /\ res = NoResult
    /\ prev = game
    /\ peer = NoPeer
    /\ broker = NoData

\* the moves tried on a position: from the centre to itself, to its
\* neighbours, to a diagonal cell and to a cell two steps away, from the
\* corner to itself, and (a broker payload, which read_move would refuse)
\* from the corner to the cell below the board
OpInputs ==
    {<<centre, d>> : d \in {centre, diag(centre), far(centre)}
                        \cup {orth(centre, i) : i \in 1 .. 4}}
    \cup {<<corner, corner>>, <<corner, orth(corner, 3)>>}

\* one operation on the position: main asks for moves until one succeeds
NextOp ==
    /\ res.success = FALSE
    /\ \E coords \in OpInputs : human_turn(coords)

SpecOp == InitOp /\ [][NextOp]_vars

(***************************************************************************)
(* A long game from the deployment in which the players only type moves of *)
(* a fixed repertoire: the two AIs walk towards each other and fight, or   *)
(* self-destruct on their deployment cells.                                *)
(***************************************************************************)
\* number of turns the duel is followed for
DuelTurns == 18

\* the moves typed (src to dst)
DuelInputs ==
    {<<<<3, 3>>, <<2, 3>>>>,
     <<<<1, 1>>, <<2, 1>>>>,
     <<<<2, 3>>, <<1, 3>>>>,
     <<<<0, 1>>, <<1, 1>>>>,
     <<<<3, 4>>, <<3, 3>>>>,
     <<<<0, 0>>, <<0, 1>>>>,
     <<<<1, 0>>, <<0, 0>>>>,
     <<<<4, 4>>, <<3, 4>>>>,
     <<<<1, 1>>, <<1, 0>>>>,
     <<<<3, 3>>, <<3, 2>>>>,
     <<<<1, 1>>, <<1, 2>>>>,
     <<<<3, 2>>, <<2, 2>>>>,
     <<<<1, 2>>, <<2, 2>>>>,
     <<<<2, 2>>, <<1, 2>>>>,
     <<<<4, 4>>, <<4, 4>>>>,
     <<<<0, 0>>, <<0, 0>>>>}

InitDuel ==
    /\ game = NewGame
    /\ options = [max_turns |-> NoLimit]
    /\ mv = << <<0, 0>>, <<0, 0>> >>
    /\ res = NoResult
    /\ prev = NewGame
    /\ peer = NoPeer
    /\ broker = NoData

NextDuel ==
    /\ game.turns_played < DuelTurns
    /\ \E coords \in DuelInputs : human_turn(coords)

SpecDuel == InitDuel /\ [][NextDuel]_vars

(***************************************************************************)
(* The search: move generation, the transition heuristic and minimax.      *)
(* A search returns [raised, eval, move, t]: the exception that ended it   *)
(* ("None" if it returned), the score, the best move (NoMove for Python's  *)
(* None) and what is left of the deadline.                                 *)
(***************************************************************************)
MIN_HEURISTIC_SCORE == -2000000000
MAX_HEURISTIC_SCORE == 2000000000

\* a move that is Python's None
NoMove == <<>>

\* CoordPair.from_dim(dim).iter_rectangle: the cells row by row
iter_rectangle == [i \in 1 .. dim * dim |-> <<(i - 1) \div dim, (i - 1) % dim>>]

\* Game.player_units: the cells of the player's units, in board order
player_units(g, player) ==
    SelectSeq(iter_rectangle,
              LAMBDA c : g.board[c] # None /\ g.board[c].player = player)

\* the candidates move_candidates yields for the unit on src: the valid
\* moves to its neighbours, then the move onto itself
RECURSIVE unit_candidates(_, _, _)
unit_candidates(g, src, i) ==
    IF i = 0 THEN <<>>
    ELSE unit_candidates(g, src, i - 1)
         \o (IF is_valid_move(g, <<src, iter_adjacent(src)[i]>>)
             THEN << <<src, iter_adjacent(src)[i]>> >> ELSE <<>>)

\* the candidates of the first k units
RECURSIVE candidates_of(_, _, _)
candidates_of(g, units, k) ==
    IF k = 0 THEN <<>>
    ELSE candidates_of(g, units, k - 1)
         \o unit_candidates(g, units[k], 4) \o << <<units[k], units[k]>> >>

\* move_candidates that does not ask is_valid_move
move_candidates_unfiltered(g) ==
    LET units == player_units(g, g.next_player)
        all(src) == [i \in 1 .. 5 |-> IF i = 5 THEN <<src, src>>
                                      ELSE <<src, iter_adjacent(src)[i]>>]
        RECURSIVE every(_)
        every(k) == IF k = 0 THEN <<>> ELSE every(k - 1) \o all(units[k])
    IN  every(Len(units))

\* Game.move_candidates, as the list minimax makes of it
move_candidates(g) ==
    LET units == player_units(g, g.next_player)
    IN  candidates_of(g, units, Len(units))

\* what calculate_heuristic3 returns or raises
Scored(n) == [raised |-> "None", score |-> n]
Raised(e) == [raised |-> e, score |-> 0]

\* the ATTACK branch of calculate_heuristic3
attack_score(src_unit, dst_unit) ==
    LET s == src_unit.type
        d == dst_unit.type
    IN  IF src_unit.player = Attacker
        THEN IF s = "Virus"
             THEN (IF d = "Tech" THEN 98 ELSE IF d = "Firewall" THEN 89
                   ELSE IF d = "Program" THEN 94 ELSE 100)
             ELSE IF s = "Firewall"
             THEN (IF d = "Tech" THEN 92 ELSE IF d = "Firewall" THEN 91
                   ELSE IF d = "Program" THEN 93 ELSE 90)
             ELSE IF s = "Program"
             THEN (IF d = "Tech" THEN 99 ELSE IF d = "Firewall" THEN 95
                   ELSE IF d = "Program" THEN 97 ELSE 96)
             ELSE (IF d = "Tech" THEN 88 ELSE IF d = "Firewall" THEN 86
                   ELSE IF d = "Program" THEN 84 ELSE 87)
        ELSE IF s = "Tech"
             THEN (IF d = "Virus" THEN -91 ELSE IF d = "Firewall" THEN -86
                   ELSE IF d = "Program" THEN -92 ELSE -93)
             ELSE IF s = "Firewall"
             THEN (IF d = "Virus" THEN -95 ELSE IF d = "Firewall" THEN -84
                   ELSE IF d = "Program" THEN -94 ELSE -85)
             ELSE IF s = "Program"
             THEN (IF d = "Virus" THEN -83 ELSE IF d = "Firewall" THEN -87
                   ELSE IF d = "Program" THEN -96 ELSE -97)
             ELSE (IF d = "Virus" THEN 0 ELSE IF d = "Firewall" THEN -81
                   ELSE IF d = "Program" THEN -80 ELSE -79)

\* the REPAIR branch of calculate_heuristic3
repair_score(src_unit, dst_unit) ==
    IF src_unit.player = Attacker THEN 85
    ELSE IF dst_unit.type = "Firewall"
         THEN (IF dst_unit.health <= 6 THEN -98 ELSE -88)
    ELSE IF dst_unit.type = "Program"
         THEN (IF dst_unit.health <= 6 THEN -99 ELSE -89)
    ELSE (IF dst_unit.health <= 6 THEN -100 ELSE -90)

\* the MOVE branch of calculate_heuristic3.  The loop over the board calls
\* math.sqrt at the first AI of the other side, and the module does not
\* import math: NameError.  With no such AI the distance stays 0 and unit
\* is what the last cell of the board holds.
move_score(src_unit, prev_state) ==
    IF \E c \in Coords :
          /\ prev_state.board[c] # None
          /\ prev_state.board[c].type = "AI"
          /\ prev_state.board[c].player # src_unit.player
    THEN Raised("NameError")
    ELSE LET unit == prev_state.board[iter_rectangle[dim * dim]]
             score == IF unit.type = "Virus" THEN 80
                      ELSE IF unit.type = "Firewall" THEN 70
                      ELSE IF unit.type = "Program" THEN 60
                      ELSE 50
         IN  IF unit = None THEN Raised("AttributeError")
             ELSE Scored(IF src_unit.player = Defender THEN score * (-1) ELSE score)

\* Game.calculate_heuristic3, called on the node g for the move that led to
\* it, the action it was and the state it was made on
calculate_heuristic3(g, move, action, prev_state) ==
    IF prev_state = None \/ move = NoMove THEN Raised("AttributeError")
    ELSE LET src_unit == get(prev_state, move[1])
             dst_unit == get(prev_state, move[2])
         IN  IF action = "MOVE"
             THEN (IF src_unit = None THEN Raised("AttributeError")
                   ELSE move_score(src_unit, prev_state))
             ELSE IF action = "ATTACK"
             THEN (IF src_unit = None \/ dst_unit = None THEN Raised("AttributeError")
                   ELSE Scored(attack_score(src_unit, dst_unit)))
             ELSE IF action = "REPAIR"
             THEN (IF src_unit = None \/ dst_unit = None THEN Raised("AttributeError")
                   ELSE Scored(repair_score(src_unit, dst_unit)))
             ELSE Scored(IF g.next_player = Attacker THEN 300 ELSE -300)

\* Game.clone: a copy with a board of its own; values are not shared here
clone(g) == g

\* the loop of a minimax node over its candidates from the k-th on.  The
\* deadline is met by the first t checks only (the clock never goes back);
\* without max_time nothing is checked.  child is game_clone after
\* perform_move and next_turn, r what the recursive call returns (or the
\* exception it raises) and n the node's best_eval, best_move, alpha and
\* beta after the candidate
RECURSIVE siblings(_, _, _, _, _, _, _, _, _, _, _)
RECURSIVE minimax(_, _, _, _, _, _, _, _, _, _)
siblings(g, opts, depth, maximizing_player, alpha, beta, t, possible_moves, k, best_eval, best_move) ==
    IF k > Len(possible_moves)
    THEN [raised |-> "None", eval |-> best_eval, move |-> best_move, t |-> t]
    ELSE IF opts.max_time # NoLimit /\ t = 0
    THEN [raised |-> "None", eval |-> best_eval, move |-> best_move, t |-> t]
    ELSE LET move == possible_moves[k]
             game_clone == clone(g)
             action2 == determine_action(g, move)
             after(r) ==
                 LET better == IF maximizing_player THEN r.eval > best_eval
                               ELSE r.eval < best_eval
                     alpha1 == IF opts.alpha_beta /\ maximizing_player /\ r.eval > alpha
                               THEN r.eval ELSE alpha
                     beta1 == IF opts.alpha_beta /\ ~maximizing_player /\ r.eval < beta
                              THEN r.eval ELSE beta
                 IN  [eval |-> IF better THEN r.eval ELSE best_eval,
                      move |-> IF better THEN move ELSE best_move,
                      alpha |-> alpha1, beta |-> beta1,
                      cut |-> opts.alpha_beta /\ beta1 <= alpha1]
         IN  Only({ IF r.raised # "None"
                    THEN [raised |-> r.raised, eval |-> 0, move |-> NoMove, t |-> r.t]
                    ELSE Only({ IF n.cut
                                THEN [raised |-> "None", eval |-> n.eval,
                                      move |-> n.move, t |-> r.t]
                                ELSE siblings(g, opts, depth, maximizing_player,
                                              n.alpha, n.beta, r.t, possible_moves,
                                              k + 1, n.eval, n.move)
                                : n \in {after(r)} })
                    : r \in { minimax(child, opts, depth - 1, ~maximizing_player,
                                      alpha, beta,
                                      IF opts.max_time # NoLimit THEN t - 1 ELSE t,
                                      move, action2, clone(g))
                              : child \in {next_turn(perform_move(game_clone, move).game)} } })

\* Game.minimax
minimax(g, opts, depth, maximizing_player, alpha, beta, t, move, action, prev_state) ==
    IF depth = 0 \/ is_finished(g, opts)
    THEN LET h == calculate_heuristic3(g, move, action, prev_state)
         IN  [raised |-> h.raised, eval |-> h.score, move |-> NoMove, t |-> t]
    ELSE Only({ siblings(g, opts, depth, maximizing_player, alpha, beta, t,
                         possible_moves, 1,
                         IF maximizing_player THEN MIN_HEURISTIC_SCORE
                         ELSE MAX_HEURISTIC_SCORE,
                         NoMove)
                : possible_moves \in {move_candidates(g)} })

\* Game.suggest_move: minimax of depth 2 on a clone, maximizing for the
\* Attacker
suggest_move(g, opts, t) ==
    minimax(clone(g), opts, 2, g.next_player = Attacker,
            MIN_HEURISTIC_SCORE, MAX_HEURISTIC_SCORE, t, NoMove, "None", None)

(***************************************************************************)
(* Games with a computer player: the loop of main with computer_turn, on   *)
(* mid-game positions in which the two AIs have met.                       *)
(***************************************************************************)
\* number of deadline checks of a search that may still find time left
MaxChecks == 2

\* number of turns a position is followed for
AITurns == 2

\* the branch of main's loop taken for the player to move
human_to_move(opts, g) ==
    \/ opts.game_type = "AttackerVsDefender"
    \/ opts.game_type = "AttackerVsComp" /\ g.next_player = Attacker
    \/ opts.game_type = "CompVsDefender" /\ g.next_player = Defender

\* the exceptions that end the program, and exit(1) of main
Fatal == {"NameError", "AttributeError", "exit"}

\* computer_turn that the loop runs without looking for a winner
computer_turn_unchecked(t) ==
    /\ \E s \in {suggest_move(game, options, t)} :
           IF s.raised # "None" \/ s.move = NoMove
           THEN /\ res' = [success |-> FALSE,
                           kind |-> IF s.raised # "None" THEN s.raised ELSE "exit",
                           n1 |-> 0, n2 |-> 0]
                /\ UNCHANGED <<game, mv, prev>>
           ELSE LET r == perform_move(game, s.move)
                IN  /\ game' = IF r.success THEN next_turn(r.game) ELSE r.game
                    /\ res' = [success |-> r.success, kind |-> r.kind,
                               n1 |-> r.n1, n2 |-> r.n2]
                    /\ mv' = s.move
                    /\ prev' = game
    /\ UNCHANGED <<options, peer, broker>>

\* Game.computer_turn inside the loop of main: main stops at a winner; the
\* search runs with t deadline checks left; an exception of the search ends
\* the program, no move makes main exit(1); the move is performed and, on
\* success only, the turn advances.  mv is the move returned and prev the
\* state searched
computer_turn(t) ==
    /\ has_winner(game, options) = "None"
    /\ \E s \in {suggest_move(game, options, t)} :
           IF s.raised # "None" \/ s.move = NoMove
           THEN /\ res' = [success |-> FALSE,
                           kind |-> IF s.raised # "None" THEN s.raised ELSE "exit",
                           n1 |-> 0, n2 |-> 0]
                /\ UNCHANGED <<game, mv, prev>>
           ELSE LET r == perform_move(game, s.move)
                IN  /\ game' = IF r.success THEN next_turn(r.game) ELSE r.game
                    /\ res' = [success |-> r.success, kind |-> r.kind,
                               n1 |-> r.n1, n2 |-> r.n2]
                    /\ mv' = s.move
                    /\ prev' = game
    /\ UNCHANGED <<options, peer, broker>>

\* the healths of the two AIs when they meet
AIHealths == {3, 9}

\* a third unit, or nothing, near the two AIs
third == {None} \cup {Unit(k[1], k[2], h) : k \in {k \in Kinds : k[2] # "AI"},
                                             h \in AIHealths}

\* positions of the Attacker's AI in the centre with the Defender's AI above
\* it and up to one more unit beside them, either side to move
Skirmishes ==
    {<<{e \in {<<centre, Unit(Attacker, "AI", ha)>>,
               <<orth(centre, 1), Unit(Defender, "AI", hd)>>,
               <<c, x>>} : e[2] # None},
       Unit(p, "AI", 9)>> :
        ha \in AIHealths, hd \in AIHealths, p \in Player, x \in third,
        c \in {orth(centre, 2), orth(centre, 4), diag(centre)}}

InitAI ==
    /\ \E s \in Skirmishes :
          /\ plausible(s[1])
          /\ game = position(s[1], s[2])
    /\ options \in [max_turns : {NoLimit},
                    alpha_beta : BOOLEAN,
                    max_time : {NoLimit, <<5>>},
                    game_type : {"AttackerVsComp", "CompVsComp"}]
    /\ mv = << <<0, 0>>, <<0, 0>> >>
    /\ res = NoResult
    /\ prev = game
    /\ peer = NoPeer
    /\ broker = NoData

\* one pass of the loop of main, until the program ends
NextAI ==
    /\ res.kind \notin Fatal
    /\ game.turns_played - 2 * OpRound < AITurns
    /\ \/ /\ human_to_move(options, game)
          /\ \E coords \in OpInputs : human_turn(coords)
       \/ /\ ~human_to_move(options, game)
          /\ \E t \in 0 .. MaxChecks :
                /\ options.max_time = NoLimit => t = 0
                /\ computer_turn(t)

SpecAI == InitAI /\ [][NextAI]_vars

(***************************************************************************)
(* Properties.  In a state with res.success, mv is the move just           *)
(* performed, prev the state it was performed on and game the state after  *)
(* it (turn advanced).                                                     *)
(***************************************************************************)
\* the player has an AI unit on the board of g
ai_on_board(g, p) ==
    \E c \in Coords : g.board[c].type = "AI" /\ g.board[c].player = p

\* the unit after losing d health: gone when it reaches 0
damaged(unit, d) ==
    IF unit.health - d <= 0 THEN None ELSE [unit EXCEPT !.health = unit.health - d]

\* the last call of perform_move performed an action of this kind
performed(kind) == res.success /\ res.kind = kind

\* c lies in the 3x3 box around ctr
in_box(c, ctr) ==
    /\ c[1] - ctr[1] \in {-1, 0, 1}
    /\ c[2] - ctr[2] \in {-1, 0, 1}

\* C1: after a legal ATTACK of unit A at src on unit T at dst, T is left
\* with max(0, hT - damage_table[A.type][T.type]) and A with
\* max(0, hA - damage_table[T.type][A.type]), from the pre-attack units,
\* and a unit that reaches 0 is removed.
C1_AttackDamage ==
    performed("attack") =>
        LET A == prev.board[mv[1]]
            T == prev.board[mv[2]]
        IN  /\ game.board[mv[2]] = damaged(T, lookup(damage_table, A.type, T.type))
            /\ game.board[mv[1]] = damaged(A, lookup(damage_table, T.type, A.type))

\* the last move was scenario A: an Attacker Virus of health 9 attacked a
\* Defender Tech of health 9 next to it
ScenarioA ==
    /\ performed("attack")
    /\ prev.board[mv[1]] = Unit(Attacker, "Virus", 9)
    /\ prev.board[mv[2]] = Unit(Defender, "Tech", 9)

\* C2 as stated: after scenario A the Tech has health 3 and the Virus
\* has health 8.
C2_ScenarioA_Stated ==
    ScenarioA =>
        /\ game.board[mv[2]] = Unit(Defender, "Tech", 3)
        /\ game.board[mv[1]] = Unit(Attacker, "Virus", 8)

\* C2 amended: after scenario A the Tech has health 3 and the Virus has
\* health 3 (Tech damages Virus by 6, as Virus damages Tech).
C2_ScenarioA ==
    ScenarioA =>
        /\ game.board[mv[2]] = Unit(Defender, "Tech", 3)
        /\ game.board[mv[1]] = Unit(Attacker, "Virus", 3)

C2_Witness == ScenarioA

\* C3 as stated: in no reachable state are both AI units absent.
C3_OneAIRemains ==
    ai_on_board(game, Attacker) \/ ai_on_board(game, Defender)

\* C3 amended: both AIs are absent only after a single ATTACK or SUICIDE
\* performed on a state in which both were on the board: no AI is removed
\* after the other one.
C3_BothOnlyAtOnce ==
    (~ai_on_board(game, Attacker) /\ ~ai_on_board(game, Defender)) =>
        /\ res.success
        /\ res.kind \in {"attack", "self-destruct"}
        /\ ai_on_board(prev, Attacker)
        /\ ai_on_board(prev, Defender)

\* an ATTACK of one AI on the other removed both
C3_Witness ==
    /\ performed("attack")
    /\ ~ai_on_board(game, Attacker)
    /\ ~ai_on_board(game, Defender)
    /\ prev.board[mv[1]].type = "AI"
    /\ prev.board[mv[2]].type = "AI"

\* the turn limit is set and reached
limit_reached ==
    options.max_turns # NoLimit /\ game.turns_played >= options.max_turns[1]

\* C4 as stated: once a side's AI is destroyed has_winner returns the other
\* side, whatever the turn count and whatever else was destroyed.
C4_OpponentWins ==
    /\ ~ai_on_board(game, Attacker) => has_winner(game, options) = Defender
    /\ ~ai_on_board(game, Defender) => has_winner(game, options) = Attacker

\* C4 amended: once the Attacker's AI is destroyed has_winner returns
\* Defender; once the Defender's AI is destroyed it returns Attacker if the
\* Attacker's AI is still on the board and the turn limit is not reached,
\* and Defender otherwise.
C4_Winner ==
    /\ ~ai_on_board(game, Attacker) => has_winner(game, options) = Defender
    /\ ~ai_on_board(game, Defender) =>
          has_winner(game, options) =
              IF ai_on_board(game, Attacker) /\ ~limit_reached
              THEN Attacker ELSE Defender

\* a move destroyed the Defender's AI and the Attacker wins
C4_Witness ==
    /\ res.success
    /\ ai_on_board(prev, Defender)
    /\ ~ai_on_board(game, Defender)
    /\ has_winner(game, options) = Attacker

\* the winner by the rules: the turn limit first, then the AIs on the board
reference_winner ==
    IF limit_reached THEN Defender
    ELSE IF ~ai_on_board(game, Attacker) THEN Defender
    ELSE IF ~ai_on_board(game, Defender) THEN Attacker
    ELSE "None"

\* C5: has_winner is Defender at the turn limit whatever is on the board,
\* otherwise Defender if the Attacker's AI is gone, otherwise Attacker if
\* the Defender's AI is gone, otherwise None; is_finished is true exactly
\* when it is not None.
C5_HasWinner ==
    /\ has_winner(game, options) = reference_winner
    /\ is_finished(game, options) <=> reference_winner # "None"

\* the turn limit is reached by the move that destroyed the Defender's AI
C5_Witness ==
    /\ res.success
    /\ limit_reached
    /\ ai_on_board(prev, Defender)
    /\ ~ai_on_board(game, Defender)
    /\ ai_on_board(game, Attacker)

\* the flags of g say which AIs are on its board
flags_match(g) ==
    /\ g.attacker_has_ai <=> ai_on_board(g, Attacker)
    /\ g.defender_has_ai <=> ai_on_board(g, Defender)

\* C6: each AI-alive flag is true exactly when that AI is on the board,
\* before and after every move, and a cleared flag is never set again.
C6_FlagsTrackAIs ==
    /\ flags_match(game)
    /\ flags_match(prev)
    /\ res.success =>
          /\ ~prev.attacker_has_ai => ~game.attacker_has_ai
          /\ ~prev.defender_has_ai => ~game.defender_has_ai

\* an ATTACK destroyed the Defender's AI alone and cleared its flag
C6_Witness ==
    /\ performed("attack")
    /\ prev.defender_has_ai
    /\ ~game.defender_has_ai
    /\ game.attacker_has_ai
    /\ prev.board[mv[2]].type = "AI"

\* C7: every unit on the board has health 1..9 after every action:
\* modifications are clamped and a unit at 0 is removed.
C7_HealthInRange ==
    \A c \in Coords :
        game.board[c] # None =>
            /\ game.board[c].health \in 1 .. 9
            /\ game.board[c].player \in Player
            /\ game.board[c].type \in UnitType

\* a REPAIR whose amount would lift the unit above 9 left it at 9
C7_Witness ==
    /\ performed("repair")
    /\ prev.board[mv[2]].health + res.n1 > 9
    /\ game.board[mv[2]].health = 9

\* C8: after a SUICIDE the acting cell is empty, every other unit in the
\* 8 surrounding cells lost min(2, health) and is removed at 0, and every
\* cell outside the box is unchanged.
C8_SuicideSplash ==
    performed("self-destruct") =>
        /\ game.board[mv[1]] = None
        /\ \A c \in Coords \ {mv[1]} :
              game.board[c] =
                  IF in_box(c, mv[1]) /\ prev.board[c] # None
                  THEN damaged(prev.board[c], 2)
                  ELSE prev.board[c]

\* a SUICIDE removed a neighbour of health 1, left a diagonal neighbour of
\* health 3 with 1, and left a unit outside the box alone
C8_Witness ==
    /\ performed("self-destruct")
    /\ \E c \in Coords \ {mv[1]} :
          in_box(c, mv[1]) /\ prev.board[c].health = 1 /\ game.board[c] = None
    /\ \E c \in Coords :
          /\ c[1] # mv[1][1] /\ c[2] # mv[1][2] /\ in_box(c, mv[1])
          /\ prev.board[c].health = 3 /\ game.board[c].health = 1
    /\ \E c \in Coords : ~in_box(c, mv[1]) /\ game.board[c] # None

\* the health the units on the first k cells of the box lose to a splash
\* of 2, the acting unit's cell left out
RECURSIVE splash_loss(_, _, _)
splash_loss(g, coords, k) ==
    IF k = 0 THEN 0
    ELSE LET c == iter_range(coords[1], 1)[k]
             unit == get(g, c)
         IN  splash_loss(g, coords, k - 1)
             + (IF c = coords[1] \/ unit = None THEN 0
                ELSE IF unit.health < 2 THEN unit.health ELSE 2)

\* C9: the total damage a SUICIDE reports is the health the other units in
\* the box lost: the sum of min(2, health) over them.
C9_ReportedDamage ==
    performed("self-destruct") => res.n1 = splash_loss(prev, mv, 9)

\* c is the REPAIR of a unit of the player to move by another one
is_repair(g, c) ==
    /\ c[1] # c[2]
    /\ g.board[c[1]].player = g.next_player
    /\ g.board[c[2]].player = g.next_player

\* the repair the unit at src gives the unit at dst, by the table
repair_entry(g, c) ==
    lookup(repair_table, g.board[c[1]].type, g.board[c[2]].type)

\* C10: a REPAIR is rejected, and perform_move changes nothing, when the
\* table entry is 0 or the target has health 9; it is accepted when the
\* entry is not 0, the target is below 9 and dst is next to src.
C10_RepairLegality ==
    \A c \in Coords \X Coords :
        is_repair(game, c) =>
            /\ (repair_entry(game, c) = 0 \/ game.board[c[2]].health = 9) =>
                  /\ ~is_valid_move(game, c)
                  /\ perform_move(game, c) = Result(game, FALSE, "invalid move", 0, 0)
            /\ (/\ repair_entry(game, c) # 0
                /\ game.board[c[2]].health < 9
                /\ \E i \in 1 .. 4 : iter_adjacent(c[1])[i] = c[2]) =>
                  /\ is_valid_move(game, c)
                  /\ perform_move(game, c).success
                  /\ perform_move(game, c).kind = "repair"

\* the REPAIR of a unit of health 9, with a table entry that is not 0, was
\* submitted from the centre and rejected
C10_Witness ==
    /\ ~res.success
    /\ res.kind = "invalid move"
    /\ is_repair(game, <<centre, orth(centre, 1)>>)
    /\ repair_entry(game, <<centre, orth(centre, 1)>>) # 0
    /\ game.board[orth(centre, 1)].health = 9

\* C11: after a REPAIR the target has min(9, health + table entry), which
\* is more than before, and the repairing unit and every other cell are
\* unchanged.
C11_RepairResult ==
    performed("repair") =>
        LET T == prev.board[mv[2]]
            h == T.health + repair_entry(prev, mv)
        IN  /\ game.board[mv[2]] = [T EXCEPT !.health = IF h > 9 THEN 9 ELSE h]
            /\ game.board[mv[2]].health > T.health
            /\ \A c \in Coords \ {mv[2]} : game.board[c] = prev.board[c]

\* a Tech lifted a Program of health 5 to 8
C11_Witness ==
    /\ performed("repair")
    /\ prev.board[mv[1]].type = "Tech"
    /\ prev.board[mv[2]].type = "Program"
    /\ prev.board[mv[2]].health = 5
    /\ game.board[mv[2]].health = 8

\* the types held by the movement restrictions
Restricted == {"AI", "Firewall", "Program"}

\* the unit on cell c of g has an enemy unit on an orthogonal neighbour
engaged(g, c) ==
    \E i \in 1 .. 4 :
        /\ get(g, iter_adjacent(c)[i]) # None
        /\ get(g, iter_adjacent(c)[i]).player # g.board[c].player

\* the cells of g that hold a unit of the player to move of these types
movers(g, types) ==
    {c \in Coords : g.board[c].player = g.next_player /\ g.board[c].type \in types}

\* the in-bounds orthogonal neighbours of c
neighbours(c) == {d \in {iter_adjacent(c)[i] : i \in 1 .. 4} : is_valid_coord(d)}

\* C12: an AI, Firewall or Program of the player to move (either side)
\* with an enemy on an orthogonal neighbour cannot MOVE to any empty
\* neighbour, and its ATTACK on an adjacent enemy is legal and performed.
C12_EngagementLock ==
    \A src \in movers(game, Restricted) :
        engaged(game, src) =>
            \A dst \in neighbours(src) :
                /\ game.board[dst] = None =>
                      /\ ~is_valid_move(game, <<src, dst>>)
                      /\ ~perform_move(game, <<src, dst>>).success
                /\ (game.board[dst] # None /\ game.board[dst].player # game.next_player) =>
                      /\ is_valid_move(game, <<src, dst>>)
                      /\ perform_move(game, <<src, dst>>).kind = "attack"

\* a move was rejected for a Defender Program in the centre with an enemy
\* above it, whose way down and right (its directions of advance) is free
C12_Witness ==
    /\ ~res.success
    /\ res.kind = "invalid move"
    /\ game.board[centre] \in {Unit(Defender, "Program", h) : h \in Healths}
    /\ game.next_player = Defender
    /\ game.board[orth(centre, 1)].player = Attacker
    /\ game.board[orth(centre, 3)] = None
    /\ game.board[orth(centre, 4)] = None
    /\ ~is_valid_move(game, <<centre, orth(centre, 3)>>)
    /\ ~is_valid_move(game, <<centre, orth(centre, 4)>>)

\* the move from src to dst goes in the direction of advance of player p
advances(p, src, dst) ==
    IF p = Attacker
    THEN dst = <<src[1] - 1, src[2]>> \/ dst = <<src[1], src[2] - 1>>
    ELSE dst = <<src[1] + 1, src[2]>> \/ dst = <<src[1], src[2] + 1>>

\* C13: for an AI, Firewall or Program with no enemy next to it, a MOVE to
\* an empty neighbour is legal exactly when it advances: row or column
\* one less for the Attacker, one more for the Defender.
C13_AdvanceOnly ==
    \A src \in movers(game, Restricted) :
        ~engaged(game, src) =>
            \A dst \in neighbours(src) :
                game.board[dst] = None =>
                    /\ is_valid_move(game, <<src, dst>>) <=>
                           advances(game.next_player, src, dst)
                    /\ perform_move(game, <<src, dst>>).success <=>
                           advances(game.next_player, src, dst)

\* a Defender Firewall with no enemy next to it moved one row down
C13_Witness ==
    /\ performed("move")
    /\ prev.board[mv[1]].type = "Firewall"
    /\ prev.board[mv[1]].player = Defender
    /\ ~engaged(prev, mv[1])
    /\ mv[2] = <<mv[1][1] + 1, mv[1][2]>>
    /\ game.board[mv[2]] = prev.board[mv[1]]

\* C14: a Tech or Virus of the player to move may MOVE to every empty
\* neighbour, in all four directions, with or without enemies next to it.
C14_FreeMovers ==
    \A src \in movers(game, {"Tech", "Virus"}) :
        \A dst \in neighbours(src) :
            game.board[dst] = None =>
                /\ is_valid_move(game, <<src, dst>>)
                /\ perform_move(game, <<src, dst>>).kind = "move"

\* an Attacker Virus with an enemy next to it moved one row down, against
\* the Attacker's direction of advance
C14_Witness ==
    /\ performed("move")
    /\ prev.board[mv[1]].type = "Virus"
    /\ prev.board[mv[1]].player = Attacker
    /\ engaged(prev, mv[1])
    /\ mv[2] = <<mv[1][1] + 1, mv[1][2]>>
    /\ game.board[mv[2]] = prev.board[mv[1]]

\* source cells tried on g: every occupied cell, an empty cell and cells
\* off the board on each side
probes(g) ==
    {c \in Coords : g.board[c] # None}
        \cup {far(centre), <<-1, 2>>, <<2, -1>>, <<2, dim>>, <<dim, 2>>, <<dim, dim>>}

\* the cells of g holding a unit that is not of the player to move
enemy_cells(g) ==
    {d \in Coords : g.board[d] # None /\ g.board[d].player # g.next_player}

\* C15: for a move whose dst is src or holds an enemy unit, is_valid_move
\* is true exactly when both coordinates are on the board, src holds a
\* unit of the player to move, and dst is src or an orthogonal neighbour.
C15_SelfOrEnemyTarget ==
    LET enemies == enemy_cells(game)
    IN  \A src \in probes(game) :
            \A dst \in {src} \cup enemies :
                is_valid_move(game, <<src, dst>>) <=>
                    /\ src[1] \in 0 .. dim - 1 /\ src[2] \in 0 .. dim - 1
                    /\ dst[1] \in 0 .. dim - 1 /\ dst[2] \in 0 .. dim - 1
                    /\ game.board[src] # None
                    /\ game.board[src].player = game.next_player
                    /\ \/ dst = src
                       \/ dst[1] = src[1] /\ dst[2] - src[2] \in {-1, 1}
                       \/ dst[2] = src[2] /\ dst[1] - src[1] \in {-1, 1}

\* a unit attacked the enemy next to it while another enemy unit stood
\* out of its reach
C15_Witness ==
    /\ performed("attack")
    /\ mv[2] \in neighbours(mv[1])
    /\ \E d \in enemy_cells(prev) :
          d \notin neighbours(mv[1]) /\ ~is_valid_move(prev, <<mv[1], d>>)

\* C16: an illegal move submitted through perform_move returns a failure
\* and changes nothing: board, player to move, turn count and flags are
\* as before.
C16_IllegalMoveNoEffect ==
    /\ res.kind = "invalid move" => ~res.success /\ game = prev
    /\ ~res.success => game.turns_played = prev.turns_played
    /\ \A src \in probes(game) :
          \A dst \in {src, <<src[1] + 1, src[2] + 1>>, <<src[1], src[2] + 2>>}
                     \cup {iter_adjacent(src)[i] : i \in 1 .. 4} :
              ~is_valid_move(game, <<src, dst>>) =>
                  perform_move(game, <<src, dst>>) =
                      Result(game, FALSE, "invalid move", 0, 0)

\* a submission was refused on a position in which moving the unit in the
\* centre backwards is illegal, and the position is as it was
C16_Witness ==
    /\ ~res.success
    /\ res.kind = "invalid move"
    /\ game = prev
    /\ game.board[centre].type = "AI"
    /\ game.board[centre].player = Attacker
    /\ game.board[orth(centre, 3)] = None
    /\ ~is_valid_move(game, <<centre, orth(centre, 3)>>)

(***************************************************************************)
(* Turns and the search.                                                   *)
(***************************************************************************)
\* C17: every successful move, of a human or of the computer, is followed
\* by one turn advance (the other player is to move, turns_played is one
\* more), nothing else changes either, and the Attacker is to move exactly
\* when turns_played is even.
C17_TurnAdvance ==
    /\ [](game.next_player = Attacker <=> game.turns_played % 2 = 0)
    /\ [][\/ /\ res'.success
             /\ game'.turns_played = game.turns_played + 1
             /\ game'.next_player = next(game.next_player)
          \/ /\ ~res'.success
             /\ game'.turns_played = game.turns_played
             /\ game'.next_player = game.next_player]_vars

\* the computer moved for the Defender after the human Attacker: two turns
\* on, the Attacker is to move again
C17_Witness ==
    /\ res.success
    /\ options.game_type = "AttackerVsComp"
    /\ prev.next_player = Defender
    /\ prev.turns_played = 2 * OpRound + 1
    /\ game.turns_played = 2 * OpRound + 2
    /\ game.next_player = Attacker

\* C18: a move that suggest_move returns is legal in the state searched,
\* so computer_turn's perform_move of it succeeds.
C18_SearchMoveLegal ==
    /\ (res.success /\ ~human_to_move(options, prev)) => is_valid_move(prev, mv)
    /\ ~human_to_move(options, game) => res.kind # "invalid move"

\* a search without deadline returned an ATTACK and the computer made it
C18_Witness ==
    /\ performed("attack")
    /\ ~human_to_move(options, prev)
    /\ options.max_time = NoLimit
    /\ mv \in {move_candidates(prev)[i] : i \in 1 .. Len(move_candidates(prev))}

\* the search of depth 2 without deadline on g, with or without pruning
root_search(g, alpha_beta) ==
    suggest_move(g, [max_turns |-> options.max_turns, alpha_beta |-> alpha_beta,
                     max_time |-> NoLimit, game_type |-> options.game_type], 0)

\* C19: in every state in which the game goes on, the search without
\* deadline gives the same root score with alpha_beta enabled as with it
\* disabled.
C19_SameRootScore ==
    has_winner(game, options) = "None" =>
        /\ root_search(game, TRUE).raised = root_search(game, FALSE).raised
        /\ root_search(game, TRUE).eval = root_search(game, FALSE).eval

\* C20: when the player to move has a legal move, a search with a deadline
\* never returns no move, whatever the deadline checks find (main would
\* exit on it).
C20_AlwaysAMove ==
    Len(move_candidates(game)) > 0 => res.kind # "exit"

\* the state of a candidate when the loop performs the move on the clone and
\* does not advance the turn
child_of_same_turn(g, move) == perform_move(clone(g), move).game

\* the state a minimax node on g makes for its candidate move, as the loop
\* does: perform_move and next_turn on a clone
child_of(g, move) == next_turn(perform_move(clone(g), move).game)

\* the results of calculate_heuristic3 at all the leaves below a node, no
\* candidate left out
RECURSIVE leaf_scores(_, _, _, _, _, _)
leaf_scores(g, opts, depth, move, action, prev_state) ==
    IF depth = 0 \/ is_finished(g, opts)
    THEN {calculate_heuristic3(g, move, action, prev_state)}
    ELSE UNION {leaf_scores(child_of(g, m), opts, depth - 1, m,
                            determine_action(g, m), clone(g))
                : m \in {move_candidates(g)[i] : i \in 1 .. Len(move_candidates(g))}}

\* the numbers of deadline checks a search under opts may pass
budgets(opts) == IF opts.max_time = NoLimit THEN {0} ELSE 0 .. MaxChecks

\* what the root's loop gets back from its first candidate when the search
\* starts with t checks left: the call of minimax at lines 853 and 874
first_child(g, opts, t) ==
    LET move == move_candidates(g)[1]
    IN  minimax(child_of(g, move), opts, 1, g.next_player # Attacker,
                MIN_HEURISTIC_SCORE, MAX_HEURISTIC_SCORE,
                IF opts.max_time # NoLimit THEN t - 1 ELSE t,
                move, determine_action(g, move), clone(g))

\* C21: in every state in which the game goes on, whatever the deadline
\* checks find, the score the root's first child returns to the root and
\* the score the root returns are scores calculate_heuristic3 gives at a
\* leaf below that node, and neither is MIN_HEURISTIC_SCORE or
\* MAX_HEURISTIC_SCORE.
C21_ScoreFromLeaf ==
    has_winner(game, options) = "None" =>
        \A t \in budgets(options) :
            LET root == suggest_move(game, options, t)
                move == move_candidates(game)[1]
                kid == first_child(game, options, t)
                entered == options.max_time = NoLimit \/ t > 0
            IN  /\ root.raised = "None" =>
                    /\ root.eval \notin {MIN_HEURISTIC_SCORE, MAX_HEURISTIC_SCORE}
                    /\ Scored(root.eval) \in
                           leaf_scores(game, options, 2, NoMove, "None", None)
                /\ (entered /\ kid.raised = "None") =>
                    /\ kid.eval \notin {MIN_HEURISTIC_SCORE, MAX_HEURISTIC_SCORE}
                    /\ Scored(kid.eval) \in
                           leaf_scores(child_of(game, move), options, 1, move,
                                       determine_action(game, move), clone(game))

(***************************************************************************)
(* Objects.  The search works on Game objects that refer to a board (a     *)
(* list of lists) that refers to Unit objects, and the operations change   *)
(* them in place.  A heap h holds the three kinds of objects by address:   *)
(* h.games[a] is a Game whose field board is the address of its board,     *)
(* h.boards[b] gives every cell the address of its Unit or 0 for None,     *)
(* h.units[u] is a Unit.                                                   *)
(***************************************************************************)
\* the occupied cells of a board of addresses, in board order
held(b) == SelectSeq(iter_rectangle, LAMBDA c : b[c] # 0)

\* the place of cell c in the sequence cells
place(cells, c) == CHOOSE i \in 1 .. Len(cells) : cells[i] = c

\* the Game object at address a read as a state: what get and the fields
\* give for it
deref(h, a) ==
    LET o == h.games[a]
        b == h.boards[o.board]
    IN  [board |-> [c \in Coords |-> IF b[c] = 0 THEN None ELSE h.units[b[c]]],
         next_player |-> o.next_player,
         turns_played |-> o.turns_played,
         attacker_has_ai |-> o.attacker_has_ai,
         defender_has_ai |-> o.defender_has_ai]

\* a heap with the one Game object for the state g, at address 1
heap_of(g) ==
    LET cells == SelectSeq(iter_rectangle, LAMBDA c : g.board[c] # None)
    IN  [games |-> << [board |-> 1,
                       next_player |-> g.next_player,
                       turns_played |-> g.turns_played,
                       attacker_has_ai |-> g.attacker_has_ai,
                       defender_has_ai |-> g.defender_has_ai] >>,
         boards |-> << [c \in Coords |-> IF g.board[c] = None THEN 0
                                         ELSE place(cells, c)] >>,
         units |-> [i \in 1 .. Len(cells) |-> g.board[cells[i]]]]

\* copy.deepcopy of the board at address b: a new board of new Unit objects
\* (its address is Len(boards) of the result)
deepcopy(h, b) ==
    LET old == h.boards[b]
        cells == held(old)
        n == Len(h.units)
    IN  [h EXCEPT !.units = h.units \o [i \in 1 .. Len(cells) |-> h.units[old[cells[i]]]],
                  !.boards = Append(h.boards,
                                    [c \in Coords |-> IF old[c] = 0 THEN 0
                                                      ELSE n + place(cells, c)])]

\* copy.copy of the Game at address a: a new Game object with the same
\* fields, the address of the board among them
copy(h, a) == [h EXCEPT !.games = Append(h.games, h.games[a])]

\* clone that makes the shallow copy only
clone_at_shallow(h, a) == copy(h, a)

\* Game.clone on the object at a; the clone's address is Len(games) of the
\* result
clone_at(h, a) ==
    LET h1 == deepcopy(copy(h, a), h.games[a].board)
    IN  [h1 EXCEPT !.games[Len(h1.games)].board = Len(h1.boards)]

\* Game.set on the object at a: the cell refers to the unit at address u
set_at(h, a, coord, u) ==
    IF is_valid_coord(coord)
    THEN [h EXCEPT !.boards[h.games[a].board][coord] = u]
    ELSE h

\* the address in cell coord of the board of the Game at a, 0 for None
get_at(h, a, coord) ==
    IF is_valid_coord(coord) THEN h.boards[h.games[a].board][coord] ELSE 0

\* Game.mod_health on the object at a: Unit.mod_health changes the Unit
\* object, remove_dead empties the cell and clears the flag of this Game
mod_health_at(h, a, coord, health_delta) ==
    LET u == get_at(h, a, coord)
    IN  IF u = 0 THEN h
        ELSE LET unit == Unit_mod_health(h.units[u], health_delta)
                 h1 == [h EXCEPT !.units[u] = unit]
             IN  IF is_alive(unit) THEN h1
                 ELSE LET h2 == set_at(h1, a, coord, 0)
                      IN  IF unit.type # "AI" THEN h2
                          ELSE IF unit.player = Attacker
                          THEN [h2 EXCEPT !.games[a].attacker_has_ai = FALSE]
                          ELSE [h2 EXCEPT !.games[a].defender_has_ai = FALSE]

\* the loop of perform_suicide on the object at a over the first k cells
RECURSIVE suicide_loop_at(_, _, _, _)
suicide_loop_at(h, a, box, k) ==
    IF k = 0 THEN h
    ELSE Only({ IF get_at(before, a, box[k]) # 0
                THEN mod_health_at(before, a, box[k], -2)
                ELSE before
                : before \in {suicide_loop_at(h, a, box, k - 1)} })

\* Game.perform_move on the object at a
perform_move_at(h, a, coords) ==
    LET g == deref(h, a)
        src_unit == get(g, coords[1])
        dst_unit == get(g, coords[2])
        action == determine_action(g, coords)
    IN  IF ~is_valid_move(g, coords) THEN h
        ELSE IF action = "MOVE"
        THEN set_at(set_at(h, a, coords[2], get_at(h, a, coords[1])), a, coords[1], 0)
        ELSE IF action = "ATTACK"
        THEN mod_health_at(
                 mod_health_at(h, a, coords[1],
                               lookup(damage_table, src_unit.type, dst_unit.type) * (-1)),
                 a, coords[2],
                 lookup(damage_table, dst_unit.type, src_unit.type) * (-1))
        ELSE IF action = "REPAIR"
        THEN mod_health_at(h, a, coords[2],
                           lookup(repair_table, src_unit.type, dst_unit.type))
        ELSE LET box == iter_range(coords[1], 1)
             IN  suicide_loop_at(mod_health_at(h, a, coords[1], -9), a, box, Len(box))

\* Game.next_turn on the object at a
next_turn_at(h, a) ==
    [h EXCEPT !.games[a].next_player = next(h.games[a].next_player),
              !.games[a].turns_played = h.games[a].turns_played + 1]

\* the clones and moves of minimax on the Game object at a, every candidate
\* visited: game_clone = self.clone(), perform_move and next_turn on it,
\* self.clone() for prev_state, then the recursive call on game_clone
RECURSIVE visit(_, _, _, _, _, _)
RECURSIVE explore(_, _, _, _)
visit(h, a, opts, depth, possible_moves, k) ==
    IF k > Len(possible_moves) THEN h
    ELSE Only({ visit(explore(clone_at(next_turn_at(
                                           perform_move_at(h1, Len(h1.games),
                                                           possible_moves[k]),
                                           Len(h1.games)), a),
                              Len(h1.games), opts, depth - 1),
                      a, opts, depth, possible_moves, k + 1)
                : h1 \in {clone_at(h, a)} })

explore(h, a, opts, depth) ==
    Only({ IF depth = 0 \/ is_finished(g, opts) THEN h
           ELSE visit(h, a, opts, depth, move_candidates(g), 1)
           : g \in {deref(h, a)} })

\* suggest_move on the Game object at address 1 of a heap that holds g:
\* minimax of depth 2 runs on a clone
searched(g, opts) ==
    Only({ explore(h1, Len(h1.games), opts, 2) : h1 \in {clone_at(heap_of(g), 1)} })

\* the states the clones of a search on g are to be in once it is over, in
\* the order the search makes them: every game_clone is its parent after
\* the move and next_turn, every prev_state is the parent
RECURSIVE clones_below(_, _, _)
clones_below(g, opts, depth) ==
    LET possible_moves == move_candidates(g)
        RECURSIVE upto(_)
        upto(k) == IF k = 0 THEN <<>>
                   ELSE upto(k - 1)
                        \o << child_of(g, possible_moves[k]), g >>
                        \o clones_below(child_of(g, possible_moves[k]), opts, depth - 1)
    IN  IF depth = 0 \/ is_finished(g, opts) THEN <<>>
        ELSE upto(Len(possible_moves))

\* C22: in every state in which the game goes on, once a search on the
\* state is over the Game object it was called on reads as before (board,
\* next_player, turns_played and both flags), and every clone the search
\* made reads as it did when its own move had been performed: it is its
\* parent after that move alone, and every prev_state clone is the parent,
\* whatever was performed on the clones made before and after it.
C22_SearchLeavesState ==
    has_winner(game, options) = "None" =>
        LET h == searched(game, options)
            e == <<game>> \o clones_below(game, options, 2)
        IN  /\ deref(h, 1) = game
            /\ Len(h.games) = 1 + Len(e)
            /\ \A i \in 1 .. Len(e) : deref(h, i + 1) = e[i]

\* the computer searched a state and made the move returned; in the search
\* a clone lost an AI that the state searched still had
C22_Witness ==
    /\ res.success
    /\ ~human_to_move(options, prev)
    /\ game = child_of(prev, mv)
    /\ LET h == searched(prev, options)
       IN  \E i \in 2 .. Len(h.games) :
              /\ ~h.games[i].defender_has_ai
              /\ h.games[i].board # h.games[1].board
              /\ h.games[1].defender_has_ai

(***************************************************************************)
(* The heuristic.                                                          *)
(***************************************************************************)
\* the candidates of the player to move that are of the given action
candidates_for(g, action) ==
    {m \in {move_candidates(g)[i] : i \in 1 .. Len(move_candidates(g))} :
        determine_action(g, m) = action}

\* what minimax gets from calculate_heuristic3 at the leaf made by move m
\* on g
leaf_score(g, m) ==
    calculate_heuristic3(child_of(g, m), m, determine_action(g, m), clone(g))

\* C23: for every ATTACK a player to move can make, calculate_heuristic3
\* returns a score above 0 when the attacking unit is the Attacker's and
\* below 0 when it is the Defender's.
C23_AttackSign ==
    \A m \in candidates_for(game, "ATTACK") :
        /\ leaf_score(game, m).raised = "None"
        /\ get(game, m[1]).player = Attacker => leaf_score(game, m).score > 0
        /\ get(game, m[1]).player = Defender => leaf_score(game, m).score < 0

\* the place of a unit type in the order Virus > Firewall > Program > others
rank(type) ==
    IF type = "Virus" THEN 3 ELSE IF type = "Firewall" THEN 2
    ELSE IF type = "Program" THEN 1 ELSE 0

\* the state g with a unit of another type of the same player and health
\* in the cell coord
retyped(g, coord, type) == set(g, coord, [get(g, coord) EXCEPT !.type = type])

\* C24: when the Attacker is to move and can make a MOVE, then for any two
\* unit types of the Attacker that may make this MOVE from the same cell
\* (so both end at the same distance from the Defender's AI) the MOVE of the
\* type that is higher in the order Virus > Firewall > Program > others gets
\* the higher score from calculate_heuristic3.
C24_MoveIncentive ==
    game.next_player = Attacker =>
        \A m \in candidates_for(game, "MOVE") :
            \A ty1, ty2 \in {ty \in UnitType : deployed(Attacker, ty) > 0} :
                LET g1 == retyped(game, m[1], ty1)
                    g2 == retyped(game, m[1], ty2)
                IN  (/\ is_valid_move(g1, m)
                     /\ is_valid_move(g2, m)
                     /\ rank(ty1) > rank(ty2))
                    => /\ leaf_score(g1, m).raised = "None"
                       /\ leaf_score(g2, m).raised = "None"
                       /\ leaf_score(g1, m).score > leaf_score(g2, m).score

(***************************************************************************)
(* Classification, movement and the broker.                                *)
(***************************************************************************)
\* the classification of a coordinate pair by the four rules alone
classified(g, coords) ==
    IF coords[1] = coords[2] THEN "SUICIDE"
    ELSE IF get(g, coords[2]) = None THEN "MOVE"
    ELSE IF get(g, coords[1]) # None
            /\ get(g, coords[1]).player = get(g, coords[2]).player THEN "REPAIR"
    ELSE "ATTACK"

\* C25: on every position, for every pair of an occupied cell, an empty
\* cell or a cell off the board as src and as dst, determine_action
\* returns an action (it raises nothing), and the action is SUICIDE if src
\* is dst, else MOVE if dst is empty, else REPAIR if the units at src and
\* dst have the same owner, else ATTACK.
C25_ActionTotal ==
    \A s \in probes(game), d \in probes(game) :
        /\ determine_action(game, <<s, d>>) \in {"SUICIDE", "MOVE", "REPAIR", "ATTACK"}
        /\ determine_action(game, <<s, d>>) = classified(game, <<s, d>>)

\* C26: after a legal MOVE the src cell is empty, the dst cell holds the
\* unit that was at src (owner, type and health), every other cell is as
\* before and so are both flags.
C26_MoveFrame ==
    performed("move") =>
        /\ game.board[mv[1]] = None
        /\ prev.board[mv[1]] # None
        /\ game.board[mv[2]] = prev.board[mv[1]]
        /\ \A c \in Coords \ {mv[1], mv[2]} : game.board[c] = prev.board[c]
        /\ game.attacker_has_ai = prev.attacker_has_ai
        /\ game.defender_has_ai = prev.defender_has_ai

\* a unit moved to an empty neighbour while another unit stood on the board
C26_Witness ==
    /\ performed("move")
    /\ prev.board[mv[2]] = None
    /\ game.board[mv[2]].health < 9
    /\ \E c \in Coords \ {mv[1], mv[2]} : game.board[c] # None

(***************************************************************************)
(* A game played through the broker: human_turn polls the broker, and what *)
(* the broker answers is an input.  An answer is [status, success, null,   *)
(* turn, move]: the HTTP status (0 when the request raised), the success   *)
(* field, whether data is null, and the turn and the coordinates of data.  *)
(***************************************************************************)
\* number of turns the broker game is followed for
BrokerTurns == 8

\* the coordinates an answer may carry; nothing validates them before
\* perform_move
BrokerMoves == DuelInputs \cup {<<corner, orth(corner, 3)>>}

\* the answers a poll may get in state g: a request that raised, an error
\* status, success false, null data, and data for this turn, the next one
\* and the one after
Answers(g) ==
    {[status |-> st, success |-> FALSE, null |-> TRUE, turn |-> 0,
      move |-> << <<0, 0>>, <<0, 0>> >>] : st \in {0, 200, 500}}
    \cup {[status |-> 200, success |-> TRUE, null |-> TRUE, turn |-> 0,
           move |-> << <<0, 0>>, <<0, 0>> >>]}
    \cup {[status |-> 200, success |-> TRUE, null |-> FALSE, turn |-> n, move |-> m] :
            n \in g.turns_played .. g.turns_played + 2, m \in BrokerMoves}

\* get_move_from_broker that takes the data of any turn
get_move_from_broker_any_turn(g, answer) ==
    IF answer.status = 200 /\ answer.success /\ ~answer.null
    THEN answer.move ELSE NoMove

\* Game.get_move_from_broker on the answer the request got
get_move_from_broker(g, answer) ==
    IF answer.status = 200 /\ answer.success
    THEN IF ~answer.null
         THEN IF answer.turn = g.turns_played + 1 THEN answer.move ELSE NoMove
         ELSE NoMove
    ELSE NoMove

\* one pass of the loop of Game.human_turn (broker path) inside the loop of
\* main: without a move nothing is done and the loop polls again (res.kind
\* is "no move"); a move is performed and, on success only, the turn
\* advances and the loop ends
broker_turn(answer) ==
    /\ has_winner(game, options) = "None"
    /\ \E m \in {get_move_from_broker(game, answer)} :
          IF m = NoMove
          THEN /\ res' = [success |-> FALSE, kind |-> "no move", n1 |-> 0, n2 |-> 0]
               /\ UNCHANGED <<game, mv, prev>>
          ELSE LET r == perform_move(game, m)
               IN  /\ game' = IF r.success THEN next_turn(r.game) ELSE r.game
                   /\ res' = [success |-> r.success, kind |-> r.kind,
                              n1 |-> r.n1, n2 |-> r.n2]
                   /\ mv' = IF r.success THEN m ELSE mv
                   /\ prev' = IF r.success THEN game ELSE prev
    /\ UNCHANGED <<options, peer, broker>>

\* a manual game from the deployment with a broker set
InitBroker ==
    /\ game = NewGame
    /\ options = [max_turns |-> NoLimit, game_type |-> "AttackerVsDefender",
                  broker |-> "url"]
    /\ mv = << <<0, 0>>, <<0, 0>> >>
    /\ res = NoResult
    /\ prev = NewGame
    /\ peer = NoPeer
    /\ broker = NoData

\* the polls of the game, followed for BrokerTurns turns
NextBroker ==
    /\ game.turns_played < BrokerTurns
    /\ \E answer \in Answers(game) : broker_turn(answer)

SpecBroker == InitBroker /\ [][NextBroker]_vars

\* the answers from which get_move_from_broker is to give a move
for_this_turn(g) ==
    {a \in Answers(g) : a.status = 200 /\ a.success /\ ~a.null
                        /\ a.turn = g.turns_played + 1}

\* C27: get_move_from_broker gives the move of an answer exactly when the
\* answer has data whose turn is turns_played + 1, and no move for a
\* failed request, null data or any other turn; a poll without a move
\* leaves the game as it is, with the player still to move and the next
\* poll possible; and a move is only performed from data for
\* turns_played + 1.
C27_BrokerTurnNumber ==
    /\ [](\A a \in Answers(game) :
             /\ a \in for_this_turn(game) => get_move_from_broker(game, a) = a.move
             /\ a \notin for_this_turn(game) => get_move_from_broker(game, a) = NoMove)
    /\ []((res.kind = "no move" /\ game.turns_played < BrokerTurns)
             => ENABLED NextBroker)
    /\ [][\/ /\ res'.kind = "no move"
             /\ UNCHANGED <<game, mv, prev>>
          \/ /\ res'.kind # "no move"
             /\ \E a \in for_this_turn(game) :
                   /\ res'.success => mv' = a.move
                   /\ game' = IF res'.success
                              THEN next_turn(perform_move(game, a.move).game)
                              ELSE game]_vars

\* polls were refused after a move of the broker had been performed
C27_Witness ==
    /\ res.kind = "no move"
    /\ game.turns_played = 1
    /\ game.next_player = Defender
    /\ game = child_of(prev, mv)

(***************************************************************************)
(* Termination and legal moves.                                            *)
(***************************************************************************)
\* what the loop of main makes of a search result s: the exception that
\* ends the program, exit(1) after "Computer doesn't know what to do!!!"
\* when computer_turn returns None, or the move
reported(s) ==
    IF s.raised # "None" THEN s.raised
    ELSE IF s.move = NoMove THEN "exit"
    ELSE "move"

\* the search of suggest_move on g when move_candidates yields nothing: the
\* loop of the root runs over an empty list
no_candidates(g, opts, t) ==
    siblings(clone(g), opts, 2, g.next_player = Attacker,
             MIN_HEURISTIC_SCORE, MAX_HEURISTIC_SCORE, t, <<>>, 1,
             IF g.next_player = Attacker THEN MIN_HEURISTIC_SCORE
             ELSE MAX_HEURISTIC_SCORE,
             NoMove)

\* C28: in every state in which the game goes on and the computer is to
\* move and has a legal move, whatever the deadline checks of the search find, what
\* main reports for the search differs from what it reports for a search
\* that found no legal move.
C28_NoMoveDistinct ==
    (/\ has_winner(game, options) = "None"
     /\ ~human_to_move(options, game)
     /\ Len(move_candidates(game)) > 0) =>
        \A t \in budgets(options) :
            reported(suggest_move(game, options, t))
                # reported(no_candidates(game, options, t))

\* number of turns the game with a turn limit is followed for
FairTurns == 6

\* a game from the deployment, without a turn limit or with one, in which
\* the players type moves of the repertoire
InitFair ==
    /\ game = NewGame
    /\ options \in {[max_turns |-> NoLimit], [max_turns |-> <<FairTurns - 1>>],
                     [max_turns |-> <<FairTurns>>]}
    /\ mv = << <<0, 0>>, <<0, 0>> >>
    /\ res = NoResult
    /\ prev = NewGame
    /\ peer = NoPeer
    /\ broker = NoData

NextFair ==
    /\ game.turns_played < FairTurns
    /\ \E coords \in DuelInputs : human_turn(coords)

\* a legal move is submitted
LegalMove == NextFair /\ res'.success

\* the game in which the player to move does not submit illegal moves for
\* ever
SpecFair == InitFair /\ [][NextFair]_vars /\ WF_vars(LegalMove)

\* the turn limit of the options is set
limited == options.max_turns # NoLimit

\* C29: in the live game turns_played never exceeds a turn limit that is
\* set; no step changes the game in a state in which has_winner is not
\* None; a search on a finished state makes no clone but the one of
\* suggest_move, and a search on a state one turn before the limit makes
\* the two clones of each candidate of the root and none below them (every
\* child is finished); and with a turn limit set, if the players go on
\* submitting legal moves, the game reaches a finished state.
C29_TerminationFirst ==
    /\ [](limited => game.turns_played <= options.max_turns[1])
    /\ [](is_finished(game, options) => Len(searched(game, options).games) = 2)
    /\ []((/\ ~is_finished(game, options)
           /\ limited
           /\ game.turns_played + 1 = options.max_turns[1])
             => Len(searched(game, options).games)
                    = 2 + 2 * Len(move_candidates(game)))
    /\ [][has_winner(game, options) # "None" => game' = game]_vars
    /\ (limited ~> is_finished(game, options))

\* the turn limit ended a game in which both AIs are on the board
C29_Witness ==
    /\ limited
    /\ res.success
    /\ game.turns_played = options.max_turns[1]
    /\ ~is_finished(prev, options)
    /\ has_winner(game, options) = Defender
    /\ ai_on_board(game, Attacker)
    /\ ai_on_board(game, Defender)

\* the cell of player p's AI on g
ai_cell(g, p) ==
    CHOOSE c \in Coords : g.board[c].type = "AI" /\ g.board[c].player = p

\* the candidates of the player to move as a set
candidate_set(g) == {move_candidates(g)[i] : i \in 1 .. Len(move_candidates(g))}

\* C30: in every state of a game played from the deployment in which the
\* game is not finished, the AI of the player to move is on the board, its
\* move onto itself is legal and is one of move_candidates, so
\* move_candidates is not empty.
C30_AlwaysALegalMove ==
    ~is_finished(game, options) =>
        /\ ai_on_board(game, game.next_player)
        /\ \A moves \in {move_candidates(game)}, c \in {ai_cell(game, game.next_player)} :
               /\ is_valid_move(game, <<c, c>>)
               /\ \E i \in 1 .. Len(moves) : moves[i] = <<c, c>>
               /\ Len(moves) > 0

\* the game goes on after a unit was lost, and the AI of the player to move
\* has no legal move but the one onto itself
C30_Witness ==
    /\ ~is_finished(game, options)
    /\ res.success
    /\ Len(player_units(game, game.next_player)) < 6
    /\ \A c \in {ai_cell(game, game.next_player)} :
           \A m \in candidate_set(game) : m[1] = c => m[2] = c

(***************************************************************************)
(* The roles of the nodes of a search.                                     *)
(***************************************************************************)
\* the nodes of minimax called on g with maximizing_player, every candidate
\* searched: the state of the node, its depth and its role.  The child of a
\* candidate is game_clone after perform_move and next_turn, and the
\* recursive call is made with the other role (lines 853 and 874)
RECURSIVE nodes(_, _, _, _)
nodes(g, opts, depth, maximizing_player) ==
    {[game |-> g, depth |-> depth, maximizing_player |-> maximizing_player]}
    \cup IF depth = 0 \/ is_finished(g, opts) THEN {}
         ELSE UNION { UNION { nodes(child, opts, depth - 1, ~maximizing_player)
                              : child \in {child_of(g, possible_moves[k])} }
                      : possible_moves \in {move_candidates(g)},
                        k \in 1 .. Len(move_candidates(g)) }

\* the nodes of the search suggest_move starts on g
search_nodes(g, opts) == nodes(clone(g), opts, 2, g.next_player = Attacker)

\* C31: in every state in which the game goes on, every node of the search
\* suggest_move starts on the state is maximizing exactly when the
\* Attacker is to move in the node's state, and minimizing exactly when
\* the Defender is.
C31_RoleFollowsPlayer ==
    has_winner(game, options) = "None" =>
        \A n \in search_nodes(game, options) :
            /\ n.maximizing_player <=> n.game.next_player = Attacker
            /\ ~n.maximizing_player <=> n.game.next_player = Defender

\* the computer searched a state for the Defender and made the move
\* returned; the search had maximizing nodes one ply down and minimizing
\* nodes two plies down
C31_Witness ==
    /\ res.success
    /\ ~human_to_move(options, prev)
    /\ prev.next_player = Defender
    /\ game = child_of(prev, mv)
    /\ \A ns \in {search_nodes(prev, options)} :
           /\ \E n \in ns : n.depth = 1 /\ n.maximizing_player /\ n.game = game
           /\ \E n \in ns : n.depth = 0 /\ ~n.maximizing_player

(***************************************************************************)
(* Two instances of the program that play each other through the broker:   *)
(* each has the computer play one side and polls the broker for the moves  *)
(* of the other side.  game is the Game of instance 1, peer the Game of    *)
(* instance 2 and broker the data of the last POST the broker received.    *)
(***************************************************************************)
\* number of turns the two instances are followed for
PeerTurns == 6

\* the two instances
Instances == {1, 2}

\* the Game of instance i
instance(i) == IF i = 1 THEN game ELSE peer

\* the options instance i is started with: options for instance 1, and the
\* same with the computer on the other side for instance 2
options_of(i) ==
    IF i = 1 THEN options
    ELSE [options EXCEPT !.game_type = IF options.game_type = "AttackerVsComp"
                                       THEN "CompVsDefender" ELSE "AttackerVsComp"]

\* post_move_to_broker that numbers the move with the turn still to come
post_move_to_broker_next_turn(g, move, i) ==
    [null |-> FALSE, turn |-> g.turns_played + 1, move |-> move, by |-> i]

\* Game.post_move_to_broker by instance i, after computer_turn: the data the
\* broker holds once the POST has arrived
post_move_to_broker(g, move, i) ==
    [null |-> FALSE, turn |-> g.turns_played, move |-> move, by |-> i]

\* the answers a GET can meet when the broker holds b: a failed request, or
\* the data
answers_of(b) ==
    {[status |-> st, success |-> FALSE, null |-> TRUE, turn |-> 0,
      move |-> << <<0, 0>>, <<0, 0>> >>] : st \in {0, 500}}
    \cup {[status |-> 200, success |-> TRUE, null |-> b.null, turn |-> b.turn,
           move |-> b.move]}

\* the else branch of the loop of main in instance i: computer_turn on its
\* Game with t deadline checks left, then post_move_to_broker when a move
\* came back; the POST arrives or is lost (the error is printed and the
\* loop goes on)
peer_computer_turn(i, t, arrives) ==
    /\ has_winner(instance(i), options_of(i)) = "None"
    /\ ~human_to_move(options_of(i), instance(i))
    /\ \E s \in {suggest_move(instance(i), options_of(i), t)} :
           IF s.raised # "None" \/ s.move = NoMove
           THEN /\ res' = [success |-> FALSE,
                           kind |-> IF s.raised # "None" THEN s.raised ELSE "exit",
                           n1 |-> 0, n2 |-> 0]
                /\ UNCHANGED <<game, peer, broker, mv, prev>>
           ELSE \E r \in {perform_move(instance(i), s.move)} :
                  \E g \in {IF r.success THEN next_turn(r.game) ELSE r.game} :
                    /\ game' = IF i = 1 THEN g ELSE game
                    /\ peer' = IF i = 2 THEN g ELSE peer
                    /\ res' = [success |-> r.success, kind |-> r.kind,
                               n1 |-> r.n1, n2 |-> r.n2]
                    /\ mv' = s.move
                    /\ prev' = instance(i)
                    /\ broker' = IF arrives THEN post_move_to_broker(g, s.move, i)
                                 ELSE broker
    /\ UNCHANGED options

\* one pass of the loop of Game.human_turn (broker path) in instance i
peer_human_turn(i, answer) ==
    /\ has_winner(instance(i), options_of(i)) = "None"
    /\ human_to_move(options_of(i), instance(i))
    /\ \E m \in {get_move_from_broker(instance(i), answer)} :
          IF m = NoMove
          THEN /\ res' = [success |-> FALSE, kind |-> "no move", n1 |-> 0, n2 |-> 0]
               /\ UNCHANGED <<game, peer, mv, prev>>
          ELSE \E r \in {perform_move(instance(i), m)} :
                 \E g \in {IF r.success THEN next_turn(r.game) ELSE r.game} :
                   /\ game' = IF i = 1 THEN g ELSE game
                   /\ peer' = IF i = 2 THEN g ELSE peer
                   /\ res' = [success |-> r.success, kind |-> r.kind,
                              n1 |-> r.n1, n2 |-> r.n2]
                   /\ mv' = IF r.success THEN m ELSE mv
                   /\ prev' = IF r.success THEN instance(i) ELSE prev
    /\ UNCHANGED <<options, broker>>

\* two instances started on the deployment, one with the computer as
\* Defender and one with the computer as Attacker, and an empty broker
InitPeers ==
    /\ game = NewGame
    /\ peer = NewGame
    /\ broker = NoData
    /\ options \in [max_turns : {NoLimit},
                    alpha_beta : BOOLEAN,
                    max_time : {NoLimit, <<5>>},
                    game_type : {"AttackerVsComp", "CompVsDefender"},
                    broker : {"url"}]
    /\ mv = << <<0, 0>>, <<0, 0>> >>
    /\ res = NoResult
    /\ prev = NewGame

\* a pass of the loop of main in one of the instances, until a program ends
\* (the other instance then polls for ever and nothing changes)
NextPeers ==
    /\ res.kind \notin Fatal
    /\ \E i \in Instances :
          /\ instance(i).turns_played < PeerTurns
          /\ \/ \E t \in 0 .. MaxChecks, arrives \in BOOLEAN :
                   /\ options.max_time = NoLimit => t = 0
                   /\ peer_computer_turn(i, t, arrives)
             \/ \E answer \in answers_of(broker) : peer_human_turn(i, answer)

SpecPeers == InitPeers /\ [][NextPeers]_vars

\* the answer of a GET that succeeds when the broker holds b
data_of(b) ==
    [status |-> 200, success |-> TRUE, null |-> b.null, turn |-> b.turn,
     move |-> b.move]

\* C32: in every state in which the broker holds a posted move, the turn
\* posted is not turns_played + 1 of the instance that posted it (it is at
\* most its turns_played) and no poll of that instance gets a move from the
\* broker; and when the other instance has performed all the moves before
\* the one posted, it is polling, its poll gets the move posted, and the
\* move is performed with success.
C32_OwnMoveNotAccepted ==
    ~broker.null =>
        \A i \in {broker.by}, j \in {3 - broker.by} :
            /\ broker.turn # instance(i).turns_played + 1
            /\ broker.turn <= instance(i).turns_played
            /\ \A a \in answers_of(broker) :
                   get_move_from_broker(instance(i), a) = NoMove
            /\ instance(j).turns_played = broker.turn - 1 =>
                   /\ has_winner(instance(j), options_of(j)) = "None"
                   /\ human_to_move(options_of(j), instance(j))
                   /\ get_move_from_broker(instance(j), data_of(broker)) = broker.move
                   /\ perform_move(instance(j), broker.move).success

\* instance 1 and instance 2 have each performed a move the other posted:
\* the broker holds the third move of the game, posted by the instance that
\* made the first, and the other instance has just performed it
C32_Witness ==
    /\ ~broker.null
    /\ broker.turn = 3
    /\ res.success
    /\ mv = broker.move
    /\ instance(3 - broker.by).turns_played = 3
    /\ instance(broker.by).turns_played = 3
    /\ game = peer
    /\ game = child_of(prev, mv)

(***************************************************************************)
(* The units of a game played from the deployment.                         *)
(***************************************************************************)
\* the cells of g that hold a unit of player p and type t
cells_of(g, p, t) ==
    {c \in Coords : g.board[c] # None /\ g.board[c].player = p /\ g.board[c].type = t}

\* the number of units of player p on g
units_of(g, p) ==
    Cardinality({c \in Coords : g.board[c] # None /\ g.board[c].player = p})

\* u and v are units of the same owner and type
same_kind(u, v) == u # None /\ v # None /\ u.player = v.player /\ u.type = v.type

\* C33: in every state of a game played from the deployment each side has
\* at most one AI, at most 6 units and of every type at most the units it
\* was deployed with; and no step increases the number of units of a side,
\* and every unit on the board after a step was on the board before it with
\* the same owner and type, in the same cell or, with the same health, in
\* the source cell of the movement just performed, which it has left.
C33_UnitsConserved ==
    /\ [](\A p \in Player :
             /\ Cardinality(cells_of(game, p, "AI")) <= 1
             /\ units_of(game, p) <= 6
             /\ \A t \in UnitType :
                    Cardinality(cells_of(game, p, t)) <= deployed(p, t))
    /\ [][/\ \A p \in Player : units_of(game', p) <= units_of(game, p)
          /\ \A c \in Coords :
                (game'.board[c] # game.board[c] /\ game'.board[c] # None) =>
                    \/ same_kind(game.board[c], game'.board[c])
                    \/ /\ game.board[c] = None
                       /\ res'.success
                       /\ res'.kind = "move"
                       /\ mv'[2] = c
                       /\ game.board[mv'[1]] = game'.board[c]
                       /\ game'.board[mv'[1]] = None]_vars

\* both sides have lost units, and a unit has just moved into a cell that
\* was empty in the deployment
C33_Witness ==
    /\ units_of(game, Attacker) < 6
    /\ units_of(game, Defender) < 6
    /\ res.success
    /\ res.kind = "move"
    /\ game.board[mv[2]] # None
    /\ NewGame.board[mv[2]] = None
    /\ prev.board[mv[2]] = None

====
